---- MODULE Spec2Model ----
(***************************************************************************)
(* Model of amplifier_tool.py: the sidebar inputs, the resistor-network    *)
(* and gain computations, and the schematic drawing pass.                  *)
(*                                                                         *)
(* Resistances are in ohms (integers); computed values (r_eq, gains) are   *)
(* exact rationals [n, d] in lowest terms with d > 0, standing for the     *)
(* script's floats.  Drawing coordinates are integers in units of 1/20 of  *)
(* a schemdraw drawing unit, the common grid of the sliders' steps (0.25   *)
(* and 0.1) and of the literal lengths 0.5, 1.5, 1.8, 2.0, 3.0 and 6.0.    *)
(***************************************************************************)
EXTENDS Integers, Sequences, FiniteSets, TLC

(* ------------------------------------------------------------------ *)
(* Exact rational arithmetic                                          *)
(* ------------------------------------------------------------------ *)
Abs(i) == IF i < 0 THEN -i ELSE i

RECURSIVE Gcd(_, _)
Gcd(a, b) == IF b = 0 THEN a ELSE Gcd(b, a % b)

Rat(n, dd) ==
    LET s == IF dd < 0 THEN -1 ELSE 1
        g == Gcd(Abs(n), Abs(dd))
    IN  [n |-> (s * n) \div g, d |-> (s * dd) \div g]

RInt(i) == [n |-> i, d |-> 1]
RZero == RInt(0)
RAdd(a, b) == Rat(a.n * b.d + b.n * a.d, a.d * b.d)
RMul(a, b) == Rat(a.n * b.n, a.d * b.d)
RNeg(a) == [n |-> -a.n, d |-> a.d]
RIsZero(a) == a.n = 0
RGt0(a) == a.n > 0
RLe(a, b) == a.n * b.d <= b.n * a.d
\* a / b for b # 0
RDiv(a, b) == Rat(a.n * b.d, a.d * b.n)

(* ------------------------------------------------------------------ *)
(* Program constants and bounds                                       *)
(* ------------------------------------------------------------------ *)
\* gm = 0.005
gm == [n |-> 1, d |-> 200]
\* step of the resistance number_input widgets
RStep == 100
\* widget defaults (value=...)
DefaultGate == 10000
DefaultDrain == 5000
DefaultSource1 == 1000
DefaultSource2 == 500
DefaultDivider == 20000
DefaultBias == 10000

\* number of positive steps entered in the gain specification
CalcMaxSteps == 1
\* number of positive steps entered in the network specification
NetMaxSteps == 4
\* number of negative steps entered in the network specification
NetNegSteps == 2


(* ------------------------------------------------------------------ *)
(* State                                                              *)
(* ------------------------------------------------------------------ *)
VARIABLES
    pc,               \* position in the script
    zoom, wire_len,   \* global sliders, in 1/20 drawing units
    s1_rg, s1_rd, s1_rs, s2_rd, s2_rs,   \* results of calculate_network
    s1_add_gate_div, s1_rg_div,
    enable_stage_2, interstage_type, s2_rg_total,
    av1, av2, total_gain,
    d,                \* the schemdraw Drawing: here, theta, stack, elems
    net,              \* frame of the current draw_resistor_network call
    Q1, Q2,           \* anchors of the placed transistors
    vout1_node

inputVars == <<zoom, wire_len, s1_rg, s1_rd, s1_rs, s2_rd, s2_rs,
               s1_add_gate_div, s1_rg_div, enable_stage_2,
               interstage_type, s2_rg_total>>
mathVars == <<av1, av2, total_gain>>
drawVars == <<d, net, Q1, Q2, vout1_node>>
vars == <<pc, inputVars, mathVars, drawVars>>

(* ------------------------------------------------------------------ *)
(* calculate_network                                                  *)
(* ------------------------------------------------------------------ *)
\* The states of the four widgets of one network: the enable checkbox, the
\* series number_input, the parallel checkbox and the parallel number_input.
\* A widget that is not shown keeps its default.
NetWidgets(V, default_val) ==
    {[enable |-> FALSE, series |-> default_val, add_par |-> FALSE, parallel |-> default_val]}
    \cup {[enable |-> TRUE, series |-> s, add_par |-> FALSE, parallel |-> default_val] : s \in V}
    \cup {[enable |-> TRUE, series |-> s, add_par |-> TRUE, parallel |-> p] : s \in V, p \in V}

\* mutant: the parallel pair computed as a series pair
calculate_network_sum(w) ==
    LET r_series == IF w.enable THEN w.series ELSE 0
        is_parallel == w.enable /\ w.add_par
        r_par == IF is_parallel THEN w.parallel ELSE 0
        r_eq == IF is_parallel /\ (r_series + r_par) > 0
                THEN RInt(r_series + r_par)
                ELSE RInt(r_series)
    IN  [en |-> w.enable, r_eq |-> r_eq, r_series |-> r_series,
         r_par |-> r_par, is_parallel |-> is_parallel]

\* mutant: the first operand of the product squared
calculate_network_sq(w) ==
    LET r_series == IF w.enable THEN w.series ELSE 0
        is_parallel == w.enable /\ w.add_par
        r_par == IF is_parallel THEN w.parallel ELSE 0
        r_eq == IF is_parallel /\ (r_series + r_par) > 0
                THEN Rat(r_series * r_series, r_series + r_par)
                ELSE RInt(r_series)
    IN  [en |-> w.enable, r_eq |-> r_eq, r_series |-> r_series,
         r_par |-> r_par, is_parallel |-> is_parallel]

calculate_network(w) ==
    LET r_series == IF w.enable THEN w.series ELSE 0
        is_parallel == w.enable /\ w.add_par
        r_par == IF is_parallel THEN w.parallel ELSE 0
        r_eq == IF is_parallel /\ (r_series + r_par) > 0
                THEN Rat(r_series * r_par, r_series + r_par)
                ELSE RInt(r_series)
    IN  [en |-> w.enable, r_eq |-> r_eq, r_series |-> r_series,
         r_par |-> r_par, is_parallel |-> is_parallel]

\* the values of a network before its calculate_network call has run
NoNetwork == [en |-> FALSE, r_eq |-> RZero, r_series |-> 0, r_par |-> 0,
              is_parallel |-> FALSE]

(* ------------------------------------------------------------------ *)
(* Input domains of the specifications                                *)
(* ------------------------------------------------------------------ *)
\* slider positions: zoom 1.0..5.0 step 0.25, wire_len 0.1..3.0 step 0.1
ZoomSlider == {20 + 5 * k : k \in 0..16}
WireSlider == {2 * k : k \in 1..30}

\* drawing specification: every shape of every network, values at defaults
RenderDomain ==
    [zoom |-> {40, 60}, wire_len |-> {20},
     gate |-> NetWidgets({DefaultGate}, DefaultGate),
     divider |-> {DefaultDivider},
     drain |-> NetWidgets({DefaultDrain}, DefaultDrain),
     source1 |-> NetWidgets({DefaultSource1}, DefaultSource1),
     source2 |-> NetWidgets({DefaultSource2}, DefaultSource2),
     add_div |-> BOOLEAN, stage2 |-> BOOLEAN, add_bias |-> BOOLEAN,
     bias |-> {0, DefaultBias},
     coupling |-> {"Direct Wire", "Resistor", "Capacitor", "Series R+C"}]

\* resistances entered in the gain specification; -1/gm is the value at
\* which the gain's denominator vanishes
CalcOhms == {-(gm.d \div gm.n)} \cup {RStep * k : k \in 0..CalcMaxSteps}

\* gain specification: the drain and source networks of both stages vary
CalcDomain ==
    [zoom |-> {60}, wire_len |-> {20},
     gate |-> {[enable |-> TRUE, series |-> DefaultGate, add_par |-> FALSE, parallel |-> DefaultGate]},
     divider |-> {DefaultDivider},
     drain |-> NetWidgets(CalcOhms, DefaultDrain),
     source1 |-> NetWidgets(CalcOhms, DefaultSource1),
     source2 |-> NetWidgets(CalcOhms, DefaultSource2),
     add_div |-> {FALSE}, stage2 |-> BOOLEAN, add_bias |-> {TRUE},
     bias |-> {DefaultBias},
     coupling |-> {"Direct Wire"}]

\* resistances entered in the network specification
NetOhms == {RStep * k : k \in (-NetNegSteps)..NetMaxSteps}

\* network specification: the stage-1 networks over a wider range of values
NetDomain ==
    [zoom |-> {60}, wire_len |-> {20},
     gate |-> {[enable |-> TRUE, series |-> DefaultGate, add_par |-> FALSE, parallel |-> DefaultGate]},
     divider |-> {DefaultDivider},
     drain |-> NetWidgets(NetOhms, DefaultDrain),
     source1 |-> NetWidgets(NetOhms, DefaultSource1),
     source2 |-> NetWidgets({DefaultSource2}, DefaultSource2),
     add_div |-> {FALSE}, stage2 |-> {FALSE}, add_bias |-> {TRUE},
     bias |-> {DefaultBias},
     coupling |-> {"Direct Wire"}]

(* ------------------------------------------------------------------ *)
(* Initial state                                                      *)
(* ------------------------------------------------------------------ *)
NoAnchors == [gate |-> <<0, 0>>, drain |-> <<0, 0>>, source |-> <<0, 0>>]
NoCall == [enable |-> FALSE, is_parallel |-> FALSE, direction |-> "right",
           spacing |-> 0, sec |-> "none", ret |-> "none", depth |-> 0,
           nelems |-> 0, entry |-> <<0, 0>>, start_point |-> <<0, 0>>, end_point |-> <<0, 0>>]
NoDrawing == [here |-> <<0, 0>>, theta |-> 0, unit |-> 60, stack |-> <<>>,
              elems |-> <<>>]

Init ==
    /\ pc = "global_settings"
    /\ zoom = 60 /\ wire_len = 20
    /\ s1_rg = NoNetwork /\ s1_rd = NoNetwork /\ s1_rs = NoNetwork
    /\ s2_rd = NoNetwork /\ s2_rs = NoNetwork
    /\ s1_add_gate_div = FALSE /\ s1_rg_div = 0
    /\ enable_stage_2 = FALSE /\ interstage_type = "None" /\ s2_rg_total = 0
    /\ av1 = RZero /\ av2 = RZero /\ total_gain = RZero
    /\ d = NoDrawing /\ net = NoCall
    /\ Q1 = NoAnchors /\ Q2 = NoAnchors /\ vout1_node = <<0, 0>>

(* ------------------------------------------------------------------ *)
(* Sidebar                                                            *)
(* ------------------------------------------------------------------ *)
\* lines 11-15: the global sliders
GlobalSettings(D) ==
    /\ pc = "global_settings"
    /\ \E z \in D.zoom \cap ZoomSlider, w \in D.wire_len \cap WireSlider :
         /\ zoom' = z
         /\ wire_len' = w
    /\ pc' = "stage1_inputs"
    /\ UNCHANGED <<s1_rg, s1_rd, s1_rs, s2_rd, s2_rs, s1_add_gate_div,
                   s1_rg_div, enable_stage_2, interstage_type, s2_rg_total,
                   mathVars, drawVars>>

\* lines 86-96: the stage-1 networks and the gate divider
Stage1Inputs(D) ==
    /\ pc = "stage1_inputs"
    /\ \E g \in D.gate, dr \in D.drain, sr \in D.source1,
          dv \in D.add_div, rdiv \in D.divider :
         /\ s1_rg' = calculate_network(g)
         /\ s1_add_gate_div' = dv
         /\ s1_rg_div' = IF dv THEN rdiv ELSE 0
         /\ s1_rd' = calculate_network(dr)
         /\ s1_rs' = calculate_network(sr)
    /\ pc' = "stage2_inputs"
    /\ UNCHANGED <<zoom, wire_len, s2_rd, s2_rs, enable_stage_2,
                   interstage_type, s2_rg_total, mathVars, drawVars>>

\* lines 100-114: the cascade switch, the coupling and the stage-2 networks
Stage2Inputs(D) ==
    /\ pc = "stage2_inputs"
    /\ \E en \in D.stage2 :
         /\ enable_stage_2' = en
         /\ IF en
            THEN \E c \in D.coupling, s2_add_bias \in D.add_bias, b \in D.bias,
                    dr \in D.drain, sr \in D.source2 :
                   /\ interstage_type' = c
                   /\ s2_rg_total' = IF s2_add_bias THEN b ELSE 0
                   /\ s2_rd' = calculate_network(dr)
                   /\ s2_rs' = calculate_network(sr)
            ELSE /\ interstage_type' = "None"
                 /\ s2_rg_total' = 0
                 /\ UNCHANGED <<s2_rd, s2_rs>>
    /\ pc' = "math"
    /\ UNCHANGED <<zoom, wire_len, s1_rg, s1_rd, s1_rs, s1_add_gate_div,
                   s1_rg_div, mathVars, drawVars>>

(* ------------------------------------------------------------------ *)
(* Math engine                                                        *)
(* ------------------------------------------------------------------ *)
\* 1/gm + rs
Denom(rs_total) == RAdd(RDiv(RInt(1), gm), rs_total)

\* a stage's gain is computed when its guard holds
Stage1Computed == RGt0(s1_rd.r_eq)
Stage2Computed == enable_stage_2 /\ RGt0(s2_rd.r_eq)

\* mutant: the source degeneration left out of the denominator
StageGain_nors(rd_total, rs_total) ==
    RNeg(RDiv(rd_total, RDiv(RInt(1), gm)))

\* -rd / (1/gm + rs)
StageGain(rd_total, rs_total) ==
    RNeg(RDiv(rd_total, Denom(rs_total)))

\* mutant: the stage-2 factor applied whether or not stage 2 is enabled
TotalGain_always(a1, a2, en2) == RMul(a1, a2)

\* line 128
TotalGain(a1, a2, en2) == RMul(a1, IF en2 THEN a2 ELSE RInt(1))

\* lines 116-128; a zero denominator raises ZeroDivisionError and the script
\* stops
MathEngine ==
    /\ pc = "math"
    /\ LET crash1 == Stage1Computed /\ RIsZero(Denom(s1_rs.r_eq))
           crash2 == Stage2Computed /\ RIsZero(Denom(s2_rs.r_eq))
       IN  IF crash1
           THEN /\ pc' = "ZeroDivisionError"
                /\ UNCHANGED mathVars
           ELSE LET a1 == IF Stage1Computed
                          THEN StageGain(s1_rd.r_eq, s1_rs.r_eq) ELSE RZero
                IN  IF crash2
                    THEN /\ pc' = "ZeroDivisionError"
                         /\ av1' = a1
                         /\ UNCHANGED <<av2, total_gain>>
                    ELSE LET a2 == IF Stage2Computed
                                   THEN StageGain(s2_rd.r_eq, s2_rs.r_eq)
                                   ELSE RZero
                         IN  /\ av1' = a1
                             /\ av2' = a2
                             /\ total_gain' = TotalGain(a1, a2, enable_stage_2)
                             /\ pc' = "draw"
    /\ UNCHANGED <<inputVars, drawVars>>


(* ------------------------------------------------------------------ *)
(* schemdraw Drawing: cursor, save stack and element list             *)
(* ------------------------------------------------------------------ *)
Vec(direction) ==
    CASE direction = "right" -> <<1, 0>>
      [] direction = "up" -> <<0, 1>>
      [] direction = "left" -> <<-1, 0>>
      [] direction = "down" -> <<0, -1>>

ThetaOf(direction) ==
    CASE direction = "right" -> 0
      [] direction = "up" -> 90
      [] direction = "left" -> 180
      [] direction = "down" -> 270

Move(p, direction, length) ==
    <<p[1] + length * Vec(direction)[1], p[2] + length * Vec(direction)[2]>>

\* floor of the square root
ISqrt(n) == CHOOSE r \in 0..n : r * r <= n /\ (r + 1) * (r + 1) > n

\* distance between two points; exact when they share a coordinate
Dist(a, b) ==
    IF a[1] = b[1] THEN Abs(a[2] - b[2])
    ELSE IF a[2] = b[2] THEN Abs(a[1] - b[1])
    ELSE ISqrt((a[1] - b[1]) * (a[1] - b[1]) + (a[2] - b[2]) * (a[2] - b[2]))

Placed(kind, sec, at, to) == [kind |-> kind, sec |-> sec, at |-> at, to |-> to]

\* d.add of a two-terminal element with an explicit direction and length: the
\* cursor moves to the element's end and takes its direction
Add2Term(dr, kind, direction, length, sec) ==
    LET to == Move(dr.here, direction, length)
    IN  [dr EXCEPT !.here = to, !.theta = ThetaOf(direction),
                   !.elems = Append(@, Placed(kind, sec, dr.here, to))]

\* a two-terminal element without a length is one drawing unit long
Add2TermUnit(dr, kind, direction, sec) ==
    Add2Term(dr, kind, direction, dr.unit, sec)

\* Line().<direction>(..).to(point): the direction is the one named, the
\* length is the distance from the cursor to the point
AddLineTo(dr, direction, point, sec) ==
    Add2Term(dr, "Line", direction, Dist(dr.here, point), sec)

\* Line().<direction>().at(point).length(..)
AddLineAt(dr, point, direction, length, sec) ==
    Add2Term([dr EXCEPT !.here = point], "Line", direction, length, sec)

\* Ground, Dot, Vdd: placed at the cursor, which stays where it is
AddFixed(dr, kind, sec) ==
    [dr EXCEPT !.elems = Append(@, Placed(kind, sec, dr.here, dr.here))]

\* Label().at(point): placed at the point, the cursor stays where it is
AddLabelAt(dr, point, sec) ==
    [dr EXCEPT !.elems = Append(@, Placed("Label", sec, point, point))]

\* d.push()
Push(dr) == [dr EXCEPT !.stack = Append(@, <<dr.here, dr.theta>>)]

\* mutant: the snapshot dropped without being restored
Pop_norestore(dr) ==
    IF dr.stack = <<>> THEN dr
    ELSE [dr EXCEPT !.stack = SubSeq(@, 1, Len(@) - 1)]

\* d.pop(); schemdraw ignores a pop of an empty stack
Pop(dr) ==
    IF dr.stack = <<>> THEN dr
    ELSE LET top == dr.stack[Len(dr.stack)]
         IN  [dr EXCEPT !.here = top[1], !.theta = top[2],
                        !.stack = SubSeq(@, 1, Len(@) - 1)]

\* d.move_from(point, dx=0, dy=0) and d.here = point
MoveFrom(dr, point) == [dr EXCEPT !.here = point]

\* offsets of the drain and source terminals from the gate terminal of
\* NFet().theta(180).flip(): 1.45 to the right, 0.75 up and down
FetGateDx == 29
FetHalf == 15

NFetAnchors(gate) ==
    [gate |-> gate,
     drain |-> <<gate[1] + FetGateDx, gate[2] + FetHalf>>,
     source |-> <<gate[1] + FetGateDx, gate[2] - FetHalf>>]

\* NFet().theta(180).flip().anchor('gate') followed by the three pin labels:
\* the gate is put at the cursor, the cursor drops at the source terminal
\* with the element's theta
AddNFet(dr, sec) ==
    LET q == NFetAnchors(dr.here)
        placed == [dr EXCEPT !.here = q.source, !.theta = 180,
                             !.elems = Append(@, Placed("NFet", sec, q.gate, q.source))]
    IN  AddLabelAt(AddLabelAt(AddLabelAt(placed, q.gate, sec), q.drain, sec),
                   q.source, sec)

(* ------------------------------------------------------------------ *)
(* draw_resistor_network                                              *)
(* ------------------------------------------------------------------ *)
\* the literal lengths 2.0 (line 42) and 1.8 (line 69)
ShortLen == 40
width_offset == 36

\* the frame of a call: its arguments, the section the call site is in, the
\* label the call returns to, and the cursor, the stack depth and the number
\* of elements on entry
Call(dr, enable, is_parallel, direction, spacing, sec, ret) ==
    [enable |-> enable, is_parallel |-> is_parallel, direction |-> direction,
     spacing |-> spacing, sec |-> sec, ret |-> ret, depth |-> Len(dr.stack),
     nelems |-> Len(dr.elems), entry |-> dr.here, start_point |-> dr.here, end_point |-> dr.here]

\* the side the parallel branch is offset to, and the way back
OffsetDir(direction) == IF direction = "right" THEN "up" ELSE "left"
ReturnDir(direction) == IF direction = "right" THEN "down" ELSE "right"

\* mutant: the disabled network drawn as a lead-in and a separate short
Net_Disabled_two ==
    /\ pc = "net_entry"
    /\ ~net.enable
    /\ d' = Add2Term(Add2Term(d, "Line", net.direction, net.spacing, net.sec),
                     "Line", net.direction, ShortLen, net.sec)
    /\ pc' = net.ret
    /\ UNCHANGED <<inputVars, mathVars, net, Q1, Q2, vout1_node>>

\* lines 40-46
Net_Disabled ==
    /\ pc = "net_entry"
    /\ ~net.enable
    /\ d' = Add2Term(d, "Line", net.direction, net.spacing + ShortLen, net.sec)
    /\ pc' = net.ret
    /\ UNCHANGED <<inputVars, mathVars, net, Q1, Q2, vout1_node>>

\* lines 48-64: lead-in wire and main resistor
Net_Main ==
    /\ pc = "net_entry"
    /\ net.enable
    /\ LET d1 == Add2Term(d, "Line", net.direction, net.spacing, net.sec)
           d2 == Add2TermUnit(d1, "Resistor", net.direction, net.sec)
       IN  /\ d' = d2
           /\ net' = [net EXCEPT !.start_point = d1.here, !.end_point = d2.here]
    /\ pc' = IF net.is_parallel THEN "net_push" ELSE net.ret
    /\ UNCHANGED <<inputVars, mathVars, Q1, Q2, vout1_node>>

\* mutant: the jump to start_point made without saving the cursor
Net_Push_nosave ==
    /\ pc = "net_push"
    /\ d' = MoveFrom(d, net.start_point)
    /\ pc' = "net_branch"
    /\ UNCHANGED <<inputVars, mathVars, net, Q1, Q2, vout1_node>>

\* lines 65-66
Net_Push ==
    /\ pc = "net_push"
    /\ d' = MoveFrom(Push(d), net.start_point)
    /\ pc' = "net_branch"
    /\ UNCHANGED <<inputVars, mathVars, net, Q1, Q2, vout1_node>>

\* mutant: the closing wire drawn from the wrong side
Net_Branch_away ==
    /\ pc = "net_branch"
    /\ LET d1 == Add2Term(d, "Line", OffsetDir(net.direction), width_offset, net.sec)
           d2 == Add2TermUnit(d1, "Resistor", net.direction, net.sec)
           d3 == Add2Term(d2, "Line", OffsetDir(net.direction), width_offset, net.sec)
       IN  d' = d3
    /\ pc' = "net_pop"
    /\ UNCHANGED <<inputVars, mathVars, net, Q1, Q2, vout1_node>>

\* lines 67-82: offset wire, parallel resistor, closing wire to end_point
Net_Branch ==
    /\ pc = "net_branch"
    /\ LET d1 == Add2Term(d, "Line", OffsetDir(net.direction), width_offset, net.sec)
           d2 == Add2TermUnit(d1, "Resistor", net.direction, net.sec)
           d3 == AddLineTo(d2, ReturnDir(net.direction), net.end_point, net.sec)
       IN  d' = d3
    /\ pc' = "net_pop"
    /\ UNCHANGED <<inputVars, mathVars, net, Q1, Q2, vout1_node>>

\* line 83
Net_Pop ==
    /\ pc = "net_pop"
    /\ d' = Pop(d)
    /\ pc' = net.ret
    /\ UNCHANGED <<inputVars, mathVars, net, Q1, Q2, vout1_node>>


(* ------------------------------------------------------------------ *)
(* Drawing engine: stage 1                                            *)
(* ------------------------------------------------------------------ *)
\* the literal lengths 0.5 (line 151), 1.5 (lines 185, 199) and 3.0 (line 200)
DivTapLen == 10
ProbeLen == 30
CouplingPartLen == 60
\* coupling_total_width = 6.0
coupling_total_width == 120

\* a step of the script that only acts on the drawing
DrawStep(from, to, dr) ==
    /\ pc = from
    /\ d' = dr
    /\ pc' = to
    /\ UNCHANGED <<inputVars, mathVars, net, Q1, Q2, vout1_node>>

\* a step of the script that ends in a call of draw_resistor_network
CallStep(from, dr, nw, direction, spacing, sec, ret) ==
    /\ pc = from
    /\ d' = dr
    /\ net' = Call(dr, nw.en, nw.is_parallel, direction, spacing, sec, ret)
    /\ pc' = "net_entry"
    /\ UNCHANGED <<inputVars, mathVars, Q1, Q2, vout1_node>>

\* a grounded resistor branch hanging down from the cursor
GroundedBranch(dr, sec) ==
    AddFixed(Add2Term(Add2TermUnit(dr, "Resistor", "down", sec),
                      "Line", "down", wire_len, sec),
             "Ground", sec)

\* lines 131-144: new drawing, ground, input source, lead and gate node
S1_InputSource ==
    LET d0 == [NoDrawing EXCEPT !.unit = zoom]
        d1 == AddFixed(d0, "Ground", "input")
        d2 == Add2TermUnit(d1, "SourceSin", "up", "input")
        d3 == Add2Term(d2, "Line", "up", wire_len, "input")
    IN  DrawStep("draw", "s1_gate", AddFixed(d3, "Dot", "gate1"))

\* lines 145-146
S1_GateNetwork ==
    CallStep("s1_gate", Push(d), s1_rg, "right", wire_len, "gate1", "s1_div")

\* lines 149-150
S1_Divider ==
    IF s1_add_gate_div
    THEN DrawStep("s1_div", "s1_div_branch", Push(d))
    ELSE DrawStep("s1_div", "s1_mosfet", d)

\* lines 151-154
S1_DividerBranch ==
    DrawStep("s1_div_branch", "s1_div_pop",
             GroundedBranch(Add2Term(d, "Line", "right", DivTapLen, "divider1"),
                            "divider1"))

\* line 155
S1_DividerPop == DrawStep("s1_div_pop", "s1_mosfet", Pop(d))

\* mutant: the source network skipped after the transistor
S1_Mosfet_nosource ==
    /\ pc = "s1_mosfet"
    /\ Q1' = NFetAnchors(d.here)
    /\ d' = AddNFet(d, "M1")
    /\ pc' = "s1_drain_lead"
    /\ UNCHANGED <<inputVars, mathVars, net, Q2, vout1_node>>

\* lines 157-166
S1_Mosfet ==
    /\ pc = "s1_mosfet"
    /\ Q1' = NFetAnchors(d.here)
    /\ d' = AddNFet(d, "M1")
    /\ pc' = "s1_src_push"
    /\ UNCHANGED <<inputVars, mathVars, net, Q2, vout1_node>>

\* line 169
S1_SourcePush == DrawStep("s1_src_push", "s1_src_lead", Push(d))

\* lines 170-172
S1_SourceLead ==
    CallStep("s1_src_lead",
             Add2Term(MoveFrom(d, Q1.source), "Line", "down", wire_len, "source1"),
             s1_rs, "down", 0, "source1", "s1_src_tail")

\* lines 173-174
S1_SourceTail ==
    DrawStep("s1_src_tail", "s1_src_pop",
             AddFixed(Add2Term(d, "Line", "down", wire_len, "source1"),
                      "Ground", "source1"))

\* mutant: the source branch left without its restore
S1_SourcePop_nopop == DrawStep("s1_src_pop", "s1_drain_lead", d)

\* line 175
S1_SourcePop == DrawStep("s1_src_pop", "s1_drain_lead", Pop(d))

\* lines 178-180
S1_DrainLead ==
    CallStep("s1_drain_lead",
             Add2Term(MoveFrom(d, Q1.drain), "Line", "up", wire_len, "drain1"),
             s1_rd, "up", 0, "drain1", "s1_drain_tail")

\* lines 181-182
S1_DrainTail ==
    DrawStep("s1_drain_tail", "s1_probe",
             AddFixed(Add2Term(d, "Line", "up", wire_len, "drain1"),
                      "Vdd", "drain1"))

\* the output probe: a wire from the drain, an open dot and its label
Probe(dr, drain, sec) ==
    LET d1 == AddLineAt(dr, drain, "right", ProbeLen, sec)
        d2 == AddFixed(d1, "Dot", sec)
    IN  AddLabelAt(d2, d2.here, sec)

\* lines 184-192
S1_Probe ==
    /\ pc = "s1_probe"
    /\ d' = Probe(d, Q1.drain, "probe1")
    /\ vout1_node' = d'.here
    /\ pc' = IF enable_stage_2 THEN "s2_coupling" ELSE "render"
    /\ UNCHANGED <<inputVars, mathVars, net, Q1, Q2>>

(* ------------------------------------------------------------------ *)
(* Drawing engine: stage 2                                            *)
(* ------------------------------------------------------------------ *)
\* mutant: the coupling resistor and capacitor left at their default length
Coupling_unit(dr, kind) ==
    CASE kind = "Resistor" ->
           Add2Term(Add2TermUnit(Add2Term(dr, "Line", "right", ProbeLen, "coupling"),
                                 "Resistor", "right", "coupling"),
                    "Line", "right", ProbeLen, "coupling")
      [] kind = "Capacitor" ->
           Add2Term(Add2TermUnit(Add2Term(dr, "Line", "right", ProbeLen, "coupling"),
                                 "Capacitor", "right", "coupling"),
                    "Line", "right", ProbeLen, "coupling")
      [] kind = "Series R+C" ->
           Add2TermUnit(Add2TermUnit(dr, "Resistor", "right", "coupling"),
                        "Capacitor", "right", "coupling")
      [] OTHER -> Add2Term(dr, "Line", "right", coupling_total_width, "coupling")

\* lines 198-210: the coupling elements drawn from the cursor
Coupling(dr, kind) ==
    CASE kind = "Resistor" ->
           Add2Term(Add2Term(Add2Term(dr, "Line", "right", ProbeLen, "coupling"),
                             "Resistor", "right", CouplingPartLen, "coupling"),
                    "Line", "right", ProbeLen, "coupling")
      [] kind = "Capacitor" ->
           Add2Term(Add2Term(Add2Term(dr, "Line", "right", ProbeLen, "coupling"),
                             "Capacitor", "right", CouplingPartLen, "coupling"),
                    "Line", "right", ProbeLen, "coupling")
      [] kind = "Series R+C" ->
           Add2Term(Add2Term(dr, "Resistor", "right", CouplingPartLen, "coupling"),
                    "Capacitor", "right", CouplingPartLen, "coupling")
      [] OTHER -> Add2Term(dr, "Line", "right", coupling_total_width, "coupling")

\* lines 193-210
S2_Coupling ==
    DrawStep("s2_coupling", "s2_bias",
             Coupling(MoveFrom(d, vout1_node), interstage_type))

\* lines 213-214
S2_Bias ==
    IF s2_rg_total > 0
    THEN DrawStep("s2_bias", "s2_bias_branch", Push(d))
    ELSE DrawStep("s2_bias", "s2_mosfet", d)

\* lines 215-218
S2_BiasBranch ==
    DrawStep("s2_bias_branch", "s2_bias_pop",
             GroundedBranch(Add2Term(d, "Line", "down", wire_len, "bias2"), "bias2"))

\* line 219
S2_BiasPop == DrawStep("s2_bias_pop", "s2_mosfet", Pop(d))

\* lines 221-226
S2_Mosfet ==
    /\ pc = "s2_mosfet"
    /\ Q2' = NFetAnchors(d.here)
    /\ d' = AddNFet(d, "M2")
    /\ pc' = "s2_src_push"
    /\ UNCHANGED <<inputVars, mathVars, net, Q1, vout1_node>>

\* line 229
S2_SourcePush == DrawStep("s2_src_push", "s2_src_lead", Push(d))

\* lines 230-232
S2_SourceLead ==
    CallStep("s2_src_lead",
             Add2Term(MoveFrom(d, Q2.source), "Line", "down", wire_len, "source2"),
             s2_rs, "down", 0, "source2", "s2_src_tail")

\* lines 233-234
S2_SourceTail ==
    DrawStep("s2_src_tail", "s2_src_pop",
             AddFixed(Add2Term(d, "Line", "down", wire_len, "source2"),
                      "Ground", "source2"))

\* line 235
S2_SourcePop == DrawStep("s2_src_pop", "s2_drain_lead", Pop(d))

\* lines 238-240
S2_DrainLead ==
    CallStep("s2_drain_lead",
             Add2Term(MoveFrom(d, Q2.drain), "Line", "up", wire_len, "drain2"),
             s2_rd, "up", 0, "drain2", "s2_drain_tail")

\* lines 241-242
S2_DrainTail ==
    DrawStep("s2_drain_tail", "s2_probe",
             AddFixed(Add2Term(d, "Line", "up", wire_len, "drain2"),
                      "Vdd", "drain2"))

\* lines 244-247
S2_Probe == DrawStep("s2_probe", "render", Probe(d, Q2.drain, "probe2"))

\* lines 249-280: d.draw() and the result metrics; the render pass is over
Render ==
    /\ pc = "render"
    /\ pc' = "done"
    /\ UNCHANGED <<inputVars, mathVars, drawVars>>

\* the figure shown as "Total Gain" (lines 267-271)
ShownTotalGain == IF enable_stage_2 THEN total_gain ELSE av1

(* ------------------------------------------------------------------ *)
(* Specifications                                                     *)
(* ------------------------------------------------------------------ *)
DrawNetwork == Net_Disabled \/ Net_Main \/ Net_Push \/ Net_Branch \/ Net_Pop

DrawStage1 ==
    \/ S1_InputSource \/ S1_GateNetwork
    \/ S1_Divider \/ S1_DividerBranch \/ S1_DividerPop
    \/ S1_Mosfet
    \/ S1_SourcePush \/ S1_SourceLead \/ S1_SourceTail \/ S1_SourcePop
    \/ S1_DrainLead \/ S1_DrainTail \/ S1_Probe

DrawStage2 ==
    \/ S2_Coupling
    \/ S2_Bias \/ S2_BiasBranch \/ S2_BiasPop
    \/ S2_Mosfet
    \/ S2_SourcePush \/ S2_SourceLead \/ S2_SourceTail \/ S2_SourcePop
    \/ S2_DrainLead \/ S2_DrainTail \/ S2_Probe

\* the whole script, over every shape of the schematic
Next ==
    \/ GlobalSettings(RenderDomain)
    \/ Stage1Inputs(RenderDomain)
    \/ Stage2Inputs(RenderDomain)
    \/ MathEngine
    \/ DrawNetwork \/ DrawStage1 \/ DrawStage2
    \/ Render

Spec == Init /\ [][Next]_vars

\* the sidebar and the math engine, over a range of resistances
NextCalc ==
    \/ GlobalSettings(CalcDomain)
    \/ Stage1Inputs(CalcDomain)
    \/ Stage2Inputs(CalcDomain)
    \/ MathEngine

SpecCalc == Init /\ [][NextCalc]_vars

\* the stage-1 calculate_network calls, over a wider range of resistances
NextNet ==
    \/ GlobalSettings(NetDomain)
    \/ Stage1Inputs(NetDomain)

SpecNet == Init /\ [][NextNet]_vars


(* ------------------------------------------------------------------ *)
(* Properties                                                         *)
(* ------------------------------------------------------------------ *)
Networks == {s1_rg, s1_rd, s1_rs, s2_rd, s2_rs}
RenderOver == pc \in {"render", "done"}
\* draw_resistor_network has just returned to its call site
Returned == pc = net.ret
LastElem == d.elems[Len(d.elems)]

\* C1: when the render pass ends, every save has been matched by a restore:
\* the cursor's save stack is empty.
C1_StackEmptyAtEnd == RenderOver => Len(d.stack) = 0

\* C2: draw_resistor_network leaves the cursor where the disabled network
\* leaves it (spacing + 2.0 along the direction from the entry point), whether
\* the network is disabled, single or parallel.
C2_SameEndPosition ==
    Returned => d.here = Move(net.entry, net.direction, net.spacing + ShortLen)

\* C3: no negative resistance is ever accepted into a network's values.
C3_NegativeRejected ==
    \A nw \in Networks : nw.r_series >= 0 /\ nw.r_par >= 0

\* C4: an enabled network with non-negative values has the equivalent
\* resistance seriesOhms without a parallel resistor, the product over the sum
\* with one when the sum is positive, and 0 when the sum is 0; in particular
\* a parallel resistor of 0 gives 0.
C4_Equivalent ==
    \A nw \in Networks :
       (nw.en /\ nw.r_series >= 0 /\ nw.r_par >= 0) =>
          /\ ~nw.is_parallel => nw.r_eq = RInt(nw.r_series)
          /\ (nw.is_parallel /\ nw.r_series + nw.r_par > 0) =>
                nw.r_eq.n * (nw.r_series + nw.r_par)
                   = nw.r_series * nw.r_par * nw.r_eq.d
          /\ (nw.is_parallel /\ nw.r_series + nw.r_par = 0) => nw.r_eq = RZero
          /\ (nw.is_parallel /\ nw.r_par = 0) => nw.r_eq = RZero

C4_Witness ==
    /\ s1_rd.is_parallel /\ s1_rd.r_series = 2 * RStep /\ s1_rd.r_par = RStep
    /\ s1_rd.r_eq = [n |-> 200, d |-> 3]
    /\ s1_rs.is_parallel /\ s1_rs.r_series = RStep /\ s1_rs.r_par = 0
    /\ s1_rs.r_eq = RZero

\* the gain the specification gives a stage: -rd / (1/gm + rs) when rd > 0,
\* stated without division, and 0 otherwise
GainAsSpecified(av, rd, rs) ==
    IF RGt0(rd)
    THEN RMul(av, RAdd(RDiv(RInt(1), gm), rs.r_eq)) = RNeg(rd)
    ELSE av = RZero

\* C5: once the math engine has run, each stage's gain is
\* -rdEquivalent / (1/gm + rsEquivalent) when rdEquivalent > 0 and 0
\* otherwise; a stage whose drain network is disabled has gain 0.
C5_StageGain ==
    pc = "draw" =>
       /\ GainAsSpecified(av1, s1_rd.r_eq, s1_rs)
       /\ ~s1_rd.en => av1 = RZero
       /\ enable_stage_2 =>
            /\ GainAsSpecified(av2, s2_rd.r_eq, s2_rs)
            /\ ~s2_rd.en => av2 = RZero

C5_Witness ==
    /\ pc = "draw"
    /\ s1_rd.is_parallel /\ RGt0(s1_rd.r_eq) /\ RGt0(s1_rs.r_eq)
    /\ av1 = [n |-> -1, d |-> 6]
    /\ enable_stage_2 /\ ~s2_rd.en /\ RGt0(s2_rs.r_eq) /\ av2 = RZero

\* C6: the total gain is av1 * av2 with stage 2 enabled and the stage-1 gain
\* with the cascade disabled, which is also the figure shown as total gain.
C6_TotalGain ==
    pc = "draw" =>
       /\ enable_stage_2 => total_gain = RMul(av1, av2)
       /\ ~enable_stage_2 => total_gain = av1
       /\ ShownTotalGain = total_gain

C6_Witness ==
    /\ pc = "draw" /\ enable_stage_2
    /\ av1 = [n |-> -1, d |-> 3] /\ av2 = [n |-> -1, d |-> 2]
    /\ total_gain = [n |-> 1, d |-> 6]

\* C7: in a parallel network the closing wire ends at the recorded endpoint
\* of the main resistor, and on return the cursor is at that endpoint with
\* the main branch's heading and the stack depth it had on entry.
C7_ParallelCloses ==
    /\ pc = "net_pop" =>
          /\ LastElem.kind = "Line"
          /\ LastElem.to = net.end_point
          /\ d.here = net.end_point
    /\ (Returned /\ net.enable /\ net.is_parallel) =>
          /\ d.here = net.end_point
          /\ d.theta = ThetaOf(net.direction)
          /\ Len(d.stack) = net.depth

C7_Witness ==
    /\ Returned /\ net.enable /\ net.is_parallel /\ net.direction = "down"
    /\ d.here = net.end_point /\ Len(d.elems) = net.nelems + 5

\* C8: a disabled network emits exactly one element, a wire along the
\* requested direction, and no resistor.
C8_DisabledOneWire ==
    (Returned /\ ~net.enable) =>
       /\ Len(d.elems) = net.nelems + 1
       /\ LastElem.kind = "Line"
       /\ LastElem.at = net.entry
       /\ LastElem.to = Move(net.entry, net.direction, Dist(LastElem.at, LastElem.to))
       /\ LastElem.to # LastElem.at

C8_Witness ==
    /\ Returned /\ ~net.enable /\ net.spacing = 0 /\ net.direction = "up"
    /\ Len(d.elems) = net.nelems + 1

\* the sections of the schematic in the order the specification gives
SectionOrder ==
    <<"input", "gate1", "divider1", "M1", "source1", "drain1", "probe1",
      "coupling", "bias2", "M2", "source2", "drain2", "probe2">>
Rank(sec) == CHOOSE i \in 1..Len(SectionOrder) : SectionOrder[i] = sec
Emitted(sec) == \E i \in 1..Len(d.elems) : d.elems[i].sec = sec
\* the last element of a section is of the given kind
EndsWith(sec, kind) ==
    \E i \in 1..Len(d.elems) :
       /\ d.elems[i].sec = sec /\ d.elems[i].kind = kind
       /\ \A j \in (i + 1)..Len(d.elems) : d.elems[j].sec # sec
\* the transistor of a section is anchored where the named section ended
AnchoredAfter(msec, gsec) ==
    \E i, j \in 1..Len(d.elems) :
       /\ d.elems[i].sec = msec /\ d.elems[i].kind = "NFet"
       /\ d.elems[j].sec = gsec /\ d.elems[j].kind # "Label"
       /\ \A k \in (j + 1)..Len(d.elems) : d.elems[k].sec # gsec
       /\ d.elems[i].at = d.elems[j].to

\* C9: elements are emitted section by section in the order gate network
\* (with its divider or bias branch), transistor, source network to ground,
\* drain network to the supply, output probe, stage 2 after stage 1's probe;
\* a finished render holds every section of each drawn stage.
C9_SectionOrder ==
    /\ \A i \in 1..(Len(d.elems) - 1) :
          Rank(d.elems[i].sec) <= Rank(d.elems[i + 1].sec)
    /\ RenderOver =>
          /\ Emitted("gate1") /\ AnchoredAfter("M1", "gate1")
          /\ Emitted("divider1") <=> s1_add_gate_div
          /\ EndsWith("source1", "Ground") /\ EndsWith("drain1", "Vdd")
          /\ EndsWith("probe1", "Label")
          /\ Emitted("coupling") <=> enable_stage_2
          /\ Emitted("M2") <=> enable_stage_2
          /\ enable_stage_2 =>
               /\ AnchoredAfter("M2", "coupling")
               /\ Emitted("bias2") <=> s2_rg_total > 0
               /\ EndsWith("source2", "Ground") /\ EndsWith("drain2", "Vdd")
               /\ EndsWith("probe2", "Label")

C9_Witness ==
    /\ pc = "done" /\ enable_stage_2 /\ s1_add_gate_div /\ s2_rg_total > 0
    /\ Emitted("probe2") /\ Emitted("bias2") /\ Emitted("divider1")

\* C10: for positive values the parallel equivalent does not depend on which
\* resistor is the series one, and it does not exceed the smaller value.
C10_CommutativeAndBelowMin ==
    /\ \A a, b \in Networks :
          (/\ a.is_parallel /\ b.is_parallel
           /\ a.r_series > 0 /\ a.r_par > 0
           /\ b.r_series = a.r_par /\ b.r_par = a.r_series) => a.r_eq = b.r_eq
    /\ \A a \in Networks :
          (a.is_parallel /\ a.r_series > 0 /\ a.r_par > 0) =>
             /\ RLe(a.r_eq, RInt(a.r_series))
             /\ RLe(a.r_eq, RInt(a.r_par))

C10_Witness ==
    /\ s1_rd.is_parallel /\ s1_rd.r_series = RStep /\ s1_rd.r_par = 3 * RStep
    /\ s1_rs.is_parallel /\ s1_rs.r_series = 3 * RStep /\ s1_rs.r_par = RStep
    /\ s1_rd.r_eq = [n |-> 75, d |-> 1] /\ s1_rs.r_eq = s1_rd.r_eq


\* where the last element of a section ended
SectionEnd(sec) ==
    LET i == CHOOSE k \in 1..Len(d.elems) :
                /\ d.elems[k].sec = sec
                /\ \A j \in (k + 1)..Len(d.elems) : d.elems[j].sec # sec
    IN  d.elems[i].to
Cursor == <<d.here, d.theta>>

\* C11: each side branch drawn between a save and its restore leaves the
\* main-trace cursor undisturbed: position and heading right after the
\* restore are those right before the save (the end of the gate network or of
\* the coupling for the divider and bias branches, the cursor left by the
\* transistor for the source branches).
C11_BranchLeavesCursor ==
    /\ pc \in {"s1_div", "s1_mosfet"} => Cursor = <<SectionEnd("gate1"), 0>>
    /\ pc \in {"s1_src_push", "s1_drain_lead"} =>
          /\ Cursor = <<Q1.source, 180>>
          /\ Cursor = <<SectionEnd("M1"), 180>>
    /\ pc \in {"s2_bias", "s2_mosfet"} => Cursor = <<SectionEnd("coupling"), 0>>
    /\ pc \in {"s2_src_push", "s2_drain_lead"} =>
          /\ Cursor = <<Q2.source, 180>>
          /\ Cursor = <<SectionEnd("M2"), 180>>

C11_Witness ==
    /\ pc = "s2_drain_lead" /\ s2_rs.is_parallel
    /\ Emitted("bias2") /\ Emitted("divider1")
    /\ LastElem.kind = "Ground" /\ LastElem.sec = "source2"
    /\ LastElem.to # d.here /\ d.here = Q2.source


\* the labels at which the next statement is a d.pop()
PopLabels == {"net_pop", "s1_div_pop", "s1_src_pop", "s2_bias_pop", "s2_src_pop"}

\* C12: no restore is executed on an empty save stack: whenever the next
\* statement is a d.pop(), the stack holds at least one snapshot.
C12_NoUnderflow == pc \in PopLabels => Len(d.stack) >= 1

C12_Witness ==
    /\ pc = "s2_src_pop" /\ s2_rs.is_parallel /\ s1_rs.is_parallel
    /\ s1_rg.is_parallel /\ Len(d.stack) >= 1

\* the first element of a section
SectionFirst(sec) ==
    d.elems[CHOOSE k \in 1..Len(d.elems) :
               /\ d.elems[k].sec = sec
               /\ \A j \in 1..(k - 1) : d.elems[j].sec # sec]

C14_NoDivisionByZero ==
    /\ pc # "ZeroDivisionError"
    /\ pc = "math" =>
          /\ Stage1Computed => ~RIsZero(RAdd(RDiv(RInt(1), gm), s1_rs.r_eq))
          /\ Stage2Computed => ~RIsZero(RAdd(RDiv(RInt(1), gm), s2_rs.r_eq))

\* C15: the save stack never holds more than 3 snapshots.
C15_StackBounded == Len(d.stack) <= 3

C15_Witness ==
    /\ pc = "net_branch" /\ net.sec = "source2" /\ Len(d.stack) = 3
    /\ Len(d.elems) = net.nelems + 2

====
